---- MODULE Spec2Model ----
(***************************************************************************)
(* The Arc ID event watcher (scripts/watcher.js): one process that polls   *)
(* the ArcIdentityRegistry for three kinds of events in a moving block     *)
(* range, sends one XMTP message per event and keeps the last processed    *)
(* block in ./watcher-state.json.                                          *)
(*                                                                         *)
(* poll() is an async function: every `await` is a suspension point, and   *)
(* the code between two awaits runs atomically on the event loop.  Each    *)
(* action below is one such atomic stretch of one invocation of poll().    *)
(* The ledger is append-only: its head height only grows, and the logs of  *)
(* a block never change once the block exists.                             *)
(*                                                                         *)
(* The two one-shot scripts of the skill, scripts/register.js and          *)
(* scripts/upload-passport.js, are modelled after the watcher, each under  *)
(* a specification of its own (RegisterSpec, UploadSpec).                  *)
(***************************************************************************)
EXTENDS Integers, Sequences, FiniteSets, TLC

\* ---------------------------------------------------------------- bounds
\* Highest block the ledger reaches.
MaxHead == 1001
\* Invocations of poll() in flight at once.
MaxInFlight == 2
\* External calls that fail over a behaviour.
MaxFaults == 2
\* Highest balance of the agent wallet register.js may read.
MaxBalance == 2

\* ------------------------------------------------------------- constants
\* Math.max(0, currentBlock - 1000): the cold-start lookback.
LOOKBACK == 1000

\* state.lastBlock of a fresh state ({ lastBlock: null }).
null == 0 - 1

REGISTRY_ADDR == "0x56c905c60c5ec61C103C99459290AdBf73976d12"

\* The order in which poll() handles the three event kinds.
KindOrder == <<"EndorsementRequested", "ApplicationSubmitted", "AgentRegistered">>

Kinds == {KindOrder[i] : i \in 1..3}

Max(a, b) == IF a >= b THEN a ELSE b

\* ------------------------------------------------------------ the ledger
\* The passport URI the registry holds for an agent (getAgentById.agentURI,
\* and the agentURI argument of the events that carry one).
RegistryURI(id) == IF id % 2 = 0 THEN "ipfs://Qm0" ELSE "ipfs://Qm1"

\* ev.args of a log of the given kind emitted in block b, after REGISTRY_ABI.
\* The agent of block b has token id b.
EventArgs(kind, b) ==
    IF kind = "EndorsementRequested"
    THEN [agentId |-> b, agentAddr |-> "0xA", endorserAddr |-> "0xB"]
    ELSE IF kind = "ApplicationSubmitted"
    THEN [agentAddr |-> "0xA", deployerAddr |-> "0xD", agentURI |-> RegistryURI(b)]
    ELSE [tokenId |-> b, agentAddr |-> "0xA", creator |-> "0xC",
          agentURI |-> RegistryURI(b)]

Log(kind, b) == [kind |-> kind, blockNumber |-> b, args |-> EventArgs(kind, b)]

\* The kinds of the logs block b holds (at most one log of a kind per block):
\* old blocks hold logs of every kind, later ones follow a fixed pattern.
KindsIn(b) ==
    IF b = 0 THEN {"EndorsementRequested"}
    ELSE IF b = 1 THEN {"ApplicationSubmitted"}
    ELSE IF b = 2 THEN {"EndorsementRequested", "AgentRegistered"}
    ELSE IF b < LOOKBACK THEN {}
    ELSE IF b % 3 = 0 THEN {"ApplicationSubmitted"}
    ELSE IF b % 3 = 1 THEN {"EndorsementRequested", "AgentRegistered"}
    ELSE {}

\* The logs of the watched kinds in the blocks up to head.
LogsUpTo(head) ==
    { e \in { Log(k, b) : k \in Kinds, b \in {0, 1, 2} \cup (LOOKBACK..head) } :
        e.kind \in KindsIn(e.blockNumber) }

RECURSIVE InBlockOrder(_)
InBlockOrder(S) ==
    IF S = {} THEN <<>>
    ELSE LET e == CHOOSE x \in S : \A y \in S : x.blockNumber <= y.blockNumber
         IN  <<e>> \o InBlockOrder(S \ {e})

\* Mutant of queryFilter: the node returns the newest logs first.
queryFilterNewestFirst(ledger, kind, fromBlock, toBlock) ==
    LET evs == InBlockOrder({ e \in ledger : /\ e.kind = kind
                                             /\ fromBlock <= e.blockNumber
                                             /\ e.blockNumber <= toBlock })
    IN  [i \in 1..Len(evs) |-> evs[Len(evs) + 1 - i]]

\* registry.queryFilter(registry.filters.<kind>(), fromBlock, toBlock): the logs
\* of that kind in [fromBlock, toBlock], in block order.
queryFilter(ledger, kind, fromBlock, toBlock) ==
    InBlockOrder({ e \in ledger : /\ e.kind = kind
                                  /\ fromBlock <= e.blockNumber
                                  /\ e.blockNumber <= toBlock })

\* ------------------------------------------------ notification templates
msgEndorsementRequested(agentAddr, agentId, endorserAddr, agentURI) ==
    << <<"Arc ID - Endorsement Request">>,
       <<"Agent ", agentAddr, " (ID: #", agentId, ") is requesting your endorsement.">>,
       <<"Passport: ", agentURI>>,
       <<"  ArcIdentityRegistry.endorse(", agentId, ")">>,
       <<"  Contract: 0x56c905c60c5ec61C103C99459290AdBf73976d12">>,
       <<"  Explorer: https://testnet.arcscan.app/address/", REGISTRY_ADDR>> >>

msgApplicationSubmitted(agentAddr, deployerAddr, agentURI) ==
    << <<"Arc ID - Application Submitted">>,
       <<"Agent ", agentAddr,
         " submitted a registration application to your deployer address.">>,
       <<"Passport: ", agentURI>>,
       <<"  ArcIdentityRegistry.approveApplication(", agentAddr, ")">>,
       <<"  Contract: 0x56c905c60c5ec61C103C99459290AdBf73976d12">>,
       <<"  Explorer: https://testnet.arcscan.app/address/", REGISTRY_ADDR>> >>

msgAgentRegistered(agentAddr, tokenId, agentURI) ==
    << <<"Arc ID - Agent Registered">>,
       <<"Your agent has been registered on Arc Testnet.">>,
       <<"Token ID: #", tokenId>>,
       <<"Address: ", agentAddr>>,
       <<"Passport: ", agentURI>>,
       <<"View: https://testnet.arcscan.app/token/", REGISTRY_ADDR, "/", tokenId>> >>

\* Mutant of Recipient: every notification goes to the event's agentAddr.
RecipientAgentAddr(ev) == ev.args.agentAddr

\* The address poll() passes to sendXmtp for an event.
Recipient(ev) ==
    IF ev.kind = "EndorsementRequested" THEN ev.args.endorserAddr
    ELSE IF ev.kind = "ApplicationSubmitted" THEN ev.args.deployerAddr
    ELSE ev.args.agentAddr

\* The text poll() passes to sendXmtp for an event; agentURI is the result of
\* the view call (EndorsementRequested only, the other kinds carry their own).
Message(ev, agentURI) ==
    IF ev.kind = "EndorsementRequested"
    THEN msgEndorsementRequested(ev.args.agentAddr, ev.args.agentId,
                                 ev.args.endorserAddr, agentURI)
    ELSE IF ev.kind = "ApplicationSubmitted"
    THEN msgApplicationSubmitted(ev.args.agentAddr, ev.args.deployerAddr,
                                 ev.args.agentURI)
    ELSE msgAgentRegistered(ev.args.agentAddr, ev.args.tokenId, ev.args.agentURI)

\* One call of sendXmtp(toAddress, message), tagged with the event it is for,
\* the passport URI the message was rendered with, and whether the message went out (else sendXmtp caught and logged).
Dispatch(ev, agentURI, delivered) ==
    [to |-> Recipient(ev), message |-> Message(ev, agentURI), ev |-> ev,
     agentURI |-> agentURI, delivered |-> delivered]

\* ------------------------------------------------------------ state file
NoFile == [kind |-> "absent", lastBlock |-> null]

\* A file JSON.parse rejects, or one without a lastBlock.
BadFile == [kind |-> "corrupt", lastBlock |-> null]

\* Mutant of saveState: the file gets the block before the watermark.
saveStateBehind(st) == [kind |-> "json", lastBlock |-> st.lastBlock - 1]

\* saveState: JSON.stringify(state) written to STATE_FILE.
saveState(st) == [kind |-> "json", lastBlock |-> st.lastBlock]

\* Mutant of loadState: the file is never read.
loadStateFresh(f) == [lastBlock |-> null]

\* loadState: the parsed file, or { lastBlock: null } when the file is absent
\* or does not parse.
loadState(f) ==
    IF f.kind = "json" THEN [lastBlock |-> f.lastBlock] ELSE [lastBlock |-> null]

\* Mutant of FromBlock: a cold start scans from the first block of the chain.
FromBlockGenesis(lastBlock, currentBlock) ==
    IF lastBlock # null THEN lastBlock + 1 ELSE 0

\* fromBlock of poll().
FromBlock(lastBlock, currentBlock) ==
    IF lastBlock # null THEN lastBlock + 1 ELSE Max(0, currentBlock - LOOKBACK)

\* Mutant of NothingNew: the early return is missing.
NothingNewNever(fromBlock, currentBlock) == FALSE

\* `if (fromBlock > currentBlock) return;`
NothingNew(fromBlock, currentBlock) == fromBlock > currentBlock

\* Mutant of Watermark: the watermark stays just below the scanned range.
WatermarkStuck(fromBlock, currentBlock) == fromBlock - 1

\* Mutant of Watermark: the watermark is set one block past the scanned range.
WatermarkAhead(fromBlock, currentBlock) == currentBlock + 1

\* `state.lastBlock = currentBlock` at the end of a scanning cycle.
Watermark(fromBlock, currentBlock) == currentBlock

\* ----------------------------------------------------------------- state
VARIABLES
    chainHead,   \* head height of the ledger
    file,        \* ./watcher-state.json
    proc,        \* where main() is: "off", "initXmtp", "firstPoll", "watching", "exited"
    exitCode,    \* the code of process.exit, null while none was called
    state,       \* the state object of main(), shared by every invocation of poll()
    cycles,      \* the invocations of poll() in flight, by slot
    faults,      \* external calls that failed so far
    last,        \* the invocation of poll() that ended in the step just taken
    maxDone,     \* highest toBlock of a scan this run completed (null: none)
    firstScanned,\* lowest fromBlock of a scan this run began (null: none)
    attempted,   \* events sendXmtp was called for in this run
    skipped,     \* events in the range of a log query that failed in this run
    bootBlock,   \* lastBlock in the state file when this run read it (null: none)
    env,         \* process.env of the last launch of the watcher
    reg,         \* a run of scripts/register.js
    upl          \* a run of scripts/upload-passport.js

vars == <<chainHead, file, proc, exitCode, state, cycles, faults, last, maxDone,
          firstScanned, attempted, skipped, bootBlock, env, reg, upl>>

\* The variables of the two one-shot scripts, which the watcher never touches.
scripts == <<reg, upl>>

\* The variables of the watcher, which the scripts never touch.
watcher == <<chainHead, file, proc, exitCode, state, cycles, faults, last, maxDone,
             firstScanned, attempted, skipped, bootBlock, env>>

\* The environment of a launch of the watcher: whether NOTIFIER_PRIVATE_KEY is
\* set, and the value of FROM_BLOCK (null: unset).
Envs == [NOTIFIER_PRIVATE_KEY : BOOLEAN, FROM_BLOCK : {null, 500}]

\* No launch yet, or the process was killed.
NoEnv == [NOTIFIER_PRIVATE_KEY |-> FALSE, FROM_BLOCK |-> null]

\* Mutant of KeyMissing: the credential check is missing.
KeyMissingNever(e) == FALSE

\* `if (!NOTIFIER_KEY)`
KeyMissing(e) == ~e.NOTIFIER_PRIVATE_KEY

CycleIds == 1..MaxInFlight

\* No invocation of poll() in this slot.
Idle ==
    [pc |-> "idle", currentBlock |-> null, fromBlock |-> null, kind |-> 0,
     events |-> <<>>, agentURI |-> "", sent |-> <<>>, queried |-> {},
     failedKinds |-> {}, viewFailed |-> {}, floor |-> null, atCall |-> null]

\* poll() called: it awaits provider.getBlockNumber().  floor remembers the
\* highest block a completed scan had covered when this invocation began, and
\* atCall the watermark it began with (until it has computed fromBlock).
Called ==
    [Idle EXCEPT !.pc = "getBlockNumber", !.floor = maxDone,
                 !.atCall = state.lastBlock]

NoCycle ==
    [outcome |-> "none", first |-> FALSE, cycle |-> Idle,
     before |-> [lastBlock |-> null, file |-> NoFile]]

Running == proc \in {"initXmtp", "firstPoll", "watching"}

InFlight == {c \in CycleIds : cycles[c].pc # "idle"}

\* register.js not launched: no argument, no call made, no file written.
RegOff ==
    [pc |-> "off", key |-> FALSE, uri |-> FALSE, deployer |-> FALSE,
     autonomous |-> FALSE, balance |-> null, registered |-> "none",
     hasApp |-> "none", calls |-> <<>>, tx |-> "none", resultFile |-> "none",
     exitCode |-> null]

\* upload-passport.js not launched.
UplOff ==
    [pc |-> "off", fileArg |-> FALSE, validJson |-> FALSE, pinataKey |-> FALSE,
     pinataSecret |-> FALSE, nftKey |-> FALSE, ipfsApiUrl |-> FALSE,
     tried |-> <<>>, cid |-> "none", pinnable |-> FALSE, resultFile |-> "none",
     writes |-> 0, exitCode |-> null]

\* The watcher before its first launch, with no state file.
WatcherOff ==
    /\ chainHead = LOOKBACK - 1
    /\ file = NoFile
    /\ proc = "off"
    /\ exitCode = null
    /\ state = [lastBlock |-> null]
    /\ cycles = [c \in CycleIds |-> Idle]
    /\ faults = 0
    /\ last = NoCycle
    /\ maxDone = null
    /\ firstScanned = null
    /\ attempted = {}
    /\ skipped = {}
    /\ bootBlock = null
    /\ env = NoEnv

Init ==
    /\ chainHead = LOOKBACK - 1
    /\ file \in {NoFile, BadFile, saveState([lastBlock |-> LOOKBACK - 2])}
    /\ proc = "off"
    /\ exitCode = null
    /\ state = [lastBlock |-> null]
    /\ cycles = [c \in CycleIds |-> Idle]
    /\ faults = 0
    /\ last = NoCycle
    /\ maxDone = null
    /\ firstScanned = null
    /\ attempted = {}
    /\ skipped = {}
    /\ bootBlock = null
    /\ env = NoEnv
    /\ reg = RegOff
    /\ upl = UplOff

\* ------------------------------------------------------------ the ledger
\* The ledger appends a block.
NewBlock ==
    /\ chainHead < MaxHead
    /\ chainHead' = chainHead + 1
    /\ last' = NoCycle
    /\ UNCHANGED <<faults, file, proc, exitCode, state, cycles, maxDone,
                   firstScanned, attempted, skipped, bootBlock, env, scripts>>

\* ----------------------------------------------------------- the process
\* What process.exit and an external kill leave: nothing in memory.
Gone(p, code) ==
    /\ proc' = p
    /\ exitCode' = code
    /\ state' = [lastBlock |-> null]
    /\ cycles' = [c \in CycleIds |-> Idle]
    /\ maxDone' = null
    /\ firstScanned' = null
    /\ attempted' = {}
    /\ skipped' = {}
    /\ bootBlock' = null

\* `node watcher.js` in some environment: without NOTIFIER_PRIVATE_KEY the
\* module exits with code 1 before main() is called; with it main() runs up to
\* `await initXmtp()`.
Start ==
    /\ proc \in {"off", "exited"}
    /\ last' = NoCycle
    /\ \E e \in Envs :
         /\ env' = e
         /\ IF KeyMissing(e)
            THEN Gone("exited", 1)
            ELSE /\ proc' = "initXmtp"
                 /\ exitCode' = null
                 /\ UNCHANGED <<state, cycles, maxDone, firstScanned, attempted,
                                skipped, bootBlock>>
    /\ UNCHANGED <<faults, chainHead, file, scripts>>

\* initXmtp() resolved: main() loads the state and calls poll() for the first
\* time, which runs up to `await provider.getBlockNumber()`.
InitXmtpOk ==
    /\ proc = "initXmtp"
    /\ proc' = "firstPoll"
    /\ state' = loadState(file)
    /\ bootBlock' = file.lastBlock
    /\ cycles' = [cycles EXCEPT ![1] =
                    [Called EXCEPT !.atCall = loadState(file).lastBlock]]
    /\ last' = NoCycle
    /\ UNCHANGED <<faults, chainHead, file, exitCode, maxDone, firstScanned,
                   attempted, skipped, env, scripts>>

\* initXmtp() rejected: main().catch logs "Fatal" and exits with code 1.
InitXmtpFail ==
    /\ proc = "initXmtp"
    /\ faults < MaxFaults
    /\ faults' = faults + 1
    /\ Gone("exited", 1)
    /\ last' = NoCycle
    /\ UNCHANGED <<chainHead, file, env, scripts>>

\* The host terminates the process (Ctrl+C, kill).
Kill ==
    /\ Running
    /\ Gone("off", null)
    /\ env' = NoEnv
    /\ last' = NoCycle
    /\ UNCHANGED <<faults, chainHead, file, scripts>>

\* The timer of setInterval fires: its callback calls poll(), which runs up to
\* `await provider.getBlockNumber()`.  The timer does not wait for the promise
\* an earlier callback returned.
Tick ==
    /\ proc = "watching"
    /\ \E c \in CycleIds :
         /\ cycles[c].pc = "idle"
         /\ \A d \in CycleIds : d < c => cycles[d].pc # "idle"
         /\ cycles' = [cycles EXCEPT ![c] = Called]
    /\ last' = NoCycle
    /\ UNCHANGED <<faults, chainHead, file, proc, exitCode, state, maxDone,
                   firstScanned, attempted, skipped, bootBlock, env, scripts>>

\* ---------------------------------------------------------------- poll()
\* The invocation of poll() in slot c ends: its slot is free again.
Freed(c) == [cycles EXCEPT ![c] = Idle]

\* The record of an invocation that ends in this step: how it ended, what it
\* did, and the watermark and the state file it found when it took the step.
Ended(outcome, rec) ==
    [outcome |-> outcome, first |-> (proc = "firstPoll"), cycle |-> rec,
     before |-> [lastBlock |-> state.lastBlock, file |-> file]]

\* poll() returned.  main() awaited the first invocation: it now installs the
\* timer with setInterval.
Returned(c) ==
    /\ cycles' = Freed(c)
    /\ proc' = IF proc = "firstPoll" THEN "watching" ELSE proc

\* Mutant of Threw: the catch of the timer callback resets the state object.
ThrewForgets(c, st, att, skp) ==
    IF proc = "firstPoll"
    THEN Gone("exited", 1)
    ELSE /\ cycles' = Freed(c)
         /\ state' = [lastBlock |-> null]
         /\ attempted' = att
         /\ skipped' = skp
         /\ UNCHANGED <<proc, exitCode, maxDone, firstScanned, bootBlock>>

\* Mutant of Threw: the timer callback has no try/catch, so that a rejection of
\* any invocation ends the process.
ThrewFatal(c, st, att, skp) == Gone("exited", 1)

\* poll() threw, leaving st in memory.  The first invocation is awaited by
\* main(), whose rejection main().catch turns into process.exit(1); a timer
\* callback catches and logs.
Threw(c, st, att, skp) ==
    IF proc = "firstPoll"
    THEN Gone("exited", 1)
    ELSE /\ cycles' = Freed(c)
         /\ state' = st
         /\ attempted' = att
         /\ skipped' = skp
         /\ UNCHANGED <<proc, exitCode, maxDone, firstScanned, bootBlock>>

\* provider.getBlockNumber(): the RPC node answers with its head height.
HeadResponse(c) ==
    /\ cycles[c].pc = "getBlockNumber"
    /\ cycles' = [cycles EXCEPT ![c] =
                    [@ EXCEPT !.pc = "gotBlockNumber", !.currentBlock = chainHead]]
    /\ last' = NoCycle
    /\ UNCHANGED <<faults, chainHead, file, proc, exitCode, state, maxDone,
                   firstScanned, attempted, skipped, bootBlock, env, scripts>>

\* provider.getBlockNumber() rejects: poll() throws before it did anything.
HeadFail(c) ==
    /\ cycles[c].pc = "getBlockNumber"
    /\ faults < MaxFaults
    /\ faults' = faults + 1
    /\ last' = Ended("threw", cycles[c])
    /\ Threw(c, state, attempted, skipped)
    /\ UNCHANGED <<chainHead, file, env, scripts>>

\* What poll() awaits next: the view call or the send of the next event of the
\* current kind, or the log query of the next kind.
NextAwait(rec) ==
    IF rec.events # <<>>
    THEN LET ev == Head(rec.events)
         IN  IF ev.kind = "EndorsementRequested"
             THEN [rec EXCEPT !.pc = "getAgentById", !.agentURI = "unknown"]
             ELSE [rec EXCEPT !.pc = "sendXmtp", !.agentURI = ev.args.agentURI]
    ELSE [rec EXCEPT !.pc = "queryFilter", !.kind = @ + 1]

\* The end of a scanning cycle: `state.lastBlock = currentBlock; saveState(state)`.
\* writeFileSync may throw, after the assignment.
Complete(c, rec, f, att, skp) ==
    LET st == [lastBlock |-> Watermark(rec.fromBlock, rec.currentBlock)]
    IN  \/ /\ file' = saveState(st)
           /\ state' = st
           /\ Returned(c)
           /\ faults' = f
           /\ last' = Ended("scanned", rec)
           /\ maxDone' = Max(maxDone, rec.currentBlock)
           /\ attempted' = att
           /\ skipped' = skp
           /\ UNCHANGED <<exitCode, firstScanned, bootBlock>>
        \/ /\ f < MaxFaults
           /\ faults' = f + 1
           /\ file' = file
           /\ last' = Ended("saveThrew", rec)
           /\ Threw(c, st, att, skp)

\* poll() goes on after a query or a send: rec.events are the events of the
\* current kind still to handle.
Proceed(c, rec, f, att, skp) ==
    IF rec.events # <<>> \/ rec.kind < 3
    THEN /\ cycles' = [cycles EXCEPT ![c] = NextAwait(rec)]
         /\ faults' = f
         /\ attempted' = att
         /\ skipped' = skp
         /\ last' = NoCycle
         /\ UNCHANGED <<file, proc, exitCode, state, maxDone, firstScanned,
                        bootBlock>>
    ELSE Complete(c, rec, f, att, skp)

\* poll() resumes with the head height: it computes fromBlock from the state
\* as it is now, returns when there is nothing new, and otherwise issues the
\* first log query.
Resume(c) ==
    /\ cycles[c].pc = "gotBlockNumber"
    /\ LET rec == cycles[c]
           fromBlock == FromBlock(state.lastBlock, rec.currentBlock)
       IN  IF NothingNew(fromBlock, rec.currentBlock)
           THEN /\ Returned(c)
                /\ last' = Ended("noop", [rec EXCEPT !.fromBlock = fromBlock])
                /\ UNCHANGED <<file, state, firstScanned>>
           ELSE /\ cycles' = [cycles EXCEPT ![c] =
                                [rec EXCEPT !.pc = "queryFilter", !.kind = 1,
                                            !.fromBlock = fromBlock,
                                            !.atCall = null]]
                /\ firstScanned' = IF firstScanned = null THEN fromBlock
                                   ELSE IF fromBlock < firstScanned THEN fromBlock
                                   ELSE firstScanned
                /\ last' = NoCycle
                /\ UNCHANGED <<file, state, proc>>
    /\ UNCHANGED <<chainHead, exitCode, faults, maxDone, attempted, skipped,
                   bootBlock, env, scripts>>

\* registry.queryFilter resolves with the logs of the current kind.
QueryOk(c) ==
    /\ cycles[c].pc = "queryFilter"
    /\ LET rec == cycles[c]
           evs == queryFilter(LogsUpTo(chainHead), KindOrder[rec.kind],
                              rec.fromBlock, rec.currentBlock)
       IN  Proceed(c, [rec EXCEPT !.events = evs,
                                  !.queried = @ \cup {KindOrder[rec.kind]}],
                   faults, attempted, skipped)
    /\ UNCHANGED <<chainHead, env, scripts>>

\* Mutant of QueryFailed: one try block around the three kinds, so that a
\* failed query ends the scan.
QueryFailedAbort(rec) ==
    [rec EXCEPT !.queried = @ \cup {KindOrder[rec.kind]},
                !.failedKinds = @ \cup {KindOrder[rec.kind]},
                !.events = <<>>,
                !.kind = 3]

\* The catch around one kind's query and loop: it logs, and poll() goes on
\* after that try block, with no event of the kind handled.
QueryFailed(rec) ==
    [rec EXCEPT !.queried = @ \cup {KindOrder[rec.kind]},
                !.failedKinds = @ \cup {KindOrder[rec.kind]},
                !.events = <<>>]

\* registry.queryFilter rejects.
QueryFail(c) ==
    /\ cycles[c].pc = "queryFilter"
    /\ faults < MaxFaults
    /\ LET rec == cycles[c]
           evs == queryFilter(LogsUpTo(chainHead), KindOrder[rec.kind],
                              rec.fromBlock, rec.currentBlock)
       IN  Proceed(c, QueryFailed(rec), faults + 1, attempted, skipped \cup {evs[i] : i \in 1..Len(evs)})
    /\ UNCHANGED <<chainHead, env, scripts>>

\* Mutant of AfterView: the catch skips the event (`continue`).
AfterViewDrop(rec, ok) ==
    LET ev == Head(rec.events)
    IN  IF ok
        THEN [rec EXCEPT !.pc = "sendXmtp", !.agentURI = RegistryURI(ev.args.agentId)]
        ELSE NextAwait([rec EXCEPT !.events = Tail(@), !.viewFailed = @ \cup {ev}])

\* The try around `info = await registry.getAgentById(agentId)`: agentURI
\* becomes info.agentURI, or stays "unknown" when the call rejects (the catch
\* is empty); either way poll() then calls sendXmtp for the event.
AfterView(rec, ok) ==
    LET ev == Head(rec.events)
    IN  IF ok
        THEN [rec EXCEPT !.pc = "sendXmtp", !.agentURI = RegistryURI(ev.args.agentId)]
        ELSE [rec EXCEPT !.pc = "sendXmtp", !.viewFailed = @ \cup {ev}]

\* registry.getAgentById resolves or rejects.
View(c, ok) ==
    /\ cycles[c].pc = "getAgentById"
    /\ ok \/ faults < MaxFaults
    /\ faults' = IF ok THEN faults ELSE faults + 1
    /\ cycles' = [cycles EXCEPT ![c] = AfterView(cycles[c], ok)]
    /\ last' = NoCycle
    /\ UNCHANGED <<chainHead, file, proc, exitCode, state, maxDone,
                   firstScanned, attempted, skipped, bootBlock, env, scripts>>

ViewOk(c) == View(c, TRUE)

ViewFail(c) == View(c, FALSE)

\* Mutant of Send: the text carries the head height of the cycle that sends it.
SendStamped(c, ok) ==
    /\ cycles[c].pc = "sendXmtp"
    /\ ok \/ faults < MaxFaults
    /\ LET rec == cycles[c]
           ev == Head(rec.events)
           d == Dispatch(ev, rec.agentURI, ok)
           stamped == [d EXCEPT !.message = Append(@, <<"Block: ", rec.currentBlock>>)]
       IN  Proceed(c, [rec EXCEPT !.sent = Append(@, stamped), !.events = Tail(@)],
                   IF ok THEN faults ELSE faults + 1, attempted \cup {ev}, skipped)
    /\ UNCHANGED <<chainHead, env, scripts>>

\* sendXmtp(to, message) returns: the message was sent, or createDmWithAddress
\* or sendText threw and sendXmtp logged it.  xmtpAgent is set, since main()
\* only gets here after initXmtp() resolved.
Send(c, ok) ==
    /\ cycles[c].pc = "sendXmtp"
    /\ ok \/ faults < MaxFaults
    /\ LET rec == cycles[c]
           ev == Head(rec.events)
       IN  Proceed(c, [rec EXCEPT !.sent = Append(@, Dispatch(ev, rec.agentURI, ok)),
                                  !.events = Tail(@)],
                   IF ok THEN faults ELSE faults + 1, attempted \cup {ev}, skipped)
    /\ UNCHANGED <<chainHead, env, scripts>>

SendOk(c) == Send(c, TRUE)

SendFail(c) == Send(c, FALSE)

Next ==
    \/ NewBlock
    \/ Start
    \/ InitXmtpOk
    \/ InitXmtpFail
    \/ Kill
    \/ Tick
    \/ \E c \in CycleIds : HeadResponse(c)
    \/ \E c \in CycleIds : HeadFail(c)
    \/ \E c \in CycleIds : Resume(c)
    \/ \E c \in CycleIds : QueryOk(c)
    \/ \E c \in CycleIds : QueryFail(c)
    \/ \E c \in CycleIds : ViewOk(c)
    \/ \E c \in CycleIds : ViewFail(c)
    \/ \E c \in CycleIds : SendOk(c)
    \/ \E c \in CycleIds : SendFail(c)

Spec == Init /\ [][Next]_vars

\* ============================================================ register.js
\* One run of scripts/register.js, a module with top-level awaits: each action
\* is the stretch of the script between two awaits.  A rejection that no try
\* catches ends the process with exit code 1.

\* AGENT_PRIVATE_KEY, AGENT_URI and DEPLOYER_ADDRESS set or not, and whether
\* --autonomous is among the arguments.
RegArgs == [key : BOOLEAN, uri : BOOLEAN, deployer : BOOLEAN, autonomous : BOOLEAN]

\* "Validate inputs": any of the three checks calls fail().
InputError(a) == ~a.key \/ ~a.uri \/ (~a.autonomous /\ ~a.deployer)

\* Mutant of BalanceEmpty: the balance check is missing.
BalanceEmptyNever(balance) == FALSE

\* `if (balance === 0n)`
BalanceEmpty(balance) == balance = 0

\* The transaction the script submits: register(AGENT_URI) in autonomous mode,
\* submitApplication(DEPLOYER_ADDRESS, AGENT_URI) otherwise.
TxFor(r) == IF r.autonomous THEN "register" ELSE "submitApplication"

\* process.exit(code), or the end of the script (code 0).
RegExit(r, code) == [r EXCEPT !.pc = "exited", !.exitCode = code]

\* The script makes an external call and awaits it.
RegCall(r, call) == [r EXCEPT !.pc = call, !.calls = Append(@, call)]

RegisterInit ==
    /\ WatcherOff
    /\ reg = RegOff
    /\ upl = UplOff

\* `node register.js [--autonomous]`: the inputs are validated, the provider,
\* wallet and contract objects are built, and the script awaits getBalance.
RegStart ==
    /\ reg.pc = "off"
    /\ \E a \in RegArgs :
         LET r == [RegOff EXCEPT !.key = a.key, !.uri = a.uri,
                                 !.deployer = a.deployer,
                                 !.autonomous = a.autonomous]
         IN  reg' = IF InputError(a) THEN RegExit(r, 1) ELSE RegCall(r, "getBalance")
    /\ UNCHANGED <<watcher, upl>>

\* provider.getBalance resolves: a zero balance fails, any other goes on to
\* the isRegistered check.
RegBalanceOk ==
    /\ reg.pc = "getBalance"
    /\ \E b \in 0..MaxBalance :
         LET r == [reg EXCEPT !.balance = b]
         IN  reg' = IF BalanceEmpty(b) THEN RegExit(r, 1)
                    ELSE RegCall(r, "isRegistered")
    /\ UNCHANGED <<watcher, upl>>

\* provider.getBalance rejects, outside any try.
RegBalanceFail ==
    /\ reg.pc = "getBalance"
    /\ reg' = RegExit(reg, 1)
    /\ UNCHANGED <<watcher, upl>>

\* registry.isRegistered resolves with true or false, or rejects into the
\* empty catch of the first try block.
RegIsRegistered ==
    /\ reg.pc = "isRegistered"
    /\ \E res \in {"true", "false", "threw"} :
         LET r == [reg EXCEPT !.registered = res]
         IN  reg' = IF res = "true" THEN RegCall(r, "getAgentByAddress")
                    ELSE RegCall(r, "hasApplication")
    /\ UNCHANGED <<watcher, upl>>

\* registry.getAgentByAddress, awaited inside the same try block: when it
\* resolves the script prints the agent and exits with code 0; when it rejects
\* the empty catch swallows it and the script goes on to hasApplication.
RegGetAgent ==
    /\ reg.pc = "getAgentByAddress"
    /\ \E ok \in BOOLEAN :
         reg' = IF ok THEN RegExit(reg, 0) ELSE RegCall(reg, "hasApplication")
    /\ UNCHANGED <<watcher, upl>>

\* registry.hasApplication resolves with true (exit 0) or false, or rejects
\* into the empty catch; in the last two cases the script submits.
RegHasApplication ==
    /\ reg.pc = "hasApplication"
    /\ \E res \in {"true", "false", "threw"} :
         LET r == [reg EXCEPT !.hasApp = res]
         IN  reg' = IF res = "true" THEN RegExit(r, 0)
                    ELSE [RegCall(r, "sendTx") EXCEPT !.tx = TxFor(r)]
    /\ UNCHANGED <<watcher, upl>>

\* registry.register / registry.submitApplication resolves with the sent
\* transaction, or rejects outside any try.
RegTx ==
    /\ reg.pc = "sendTx"
    /\ \E ok \in BOOLEAN :
         reg' = IF ok THEN RegCall(reg, "wait") ELSE RegExit(reg, 1)
    /\ UNCHANGED <<watcher, upl>>

\* tx.wait() resolves with a receipt, whose status the script writes to
\* ./arc-id-result.json before it ends; or it rejects outside any try.
RegWait ==
    /\ reg.pc = "wait"
    /\ \E res \in {"success", "failed", "threw"} :
         reg' = IF res = "threw" THEN RegExit(reg, 1)
                ELSE RegExit([reg EXCEPT !.resultFile = res], 0)
    /\ UNCHANGED <<watcher, upl>>

RegisterNext ==
    \/ RegStart
    \/ RegBalanceOk
    \/ RegBalanceFail
    \/ RegIsRegistered
    \/ RegGetAgent
    \/ RegHasApplication
    \/ RegTx
    \/ RegWait

RegisterSpec == RegisterInit /\ [][RegisterNext]_vars

\* ====================================================== upload-passport.js
\* One run of scripts/upload-passport.js.

\* --file given and the file holds JSON; PINATA_API_KEY, PINATA_SECRET_KEY,
\* NFT_STORAGE_KEY and IPFS_API_URL set or not.
UplArgs ==
    [fileArg : BOOLEAN, validJson : BOOLEAN, pinataKey : BOOLEAN,
     pinataSecret : BOOLEAN, nftKey : BOOLEAN, ipfsApiUrl : BOOLEAN]

\* `if (process.env.PINATA_API_KEY && process.env.PINATA_SECRET_KEY)`
HasPinata(u) == u.pinataKey /\ u.pinataSecret

\* Mutant of AfterPinata: the nft.storage block is missing.
AfterPinataLocal(u) == "localCid"

\* The back end the script turns to after the Pinata block.
AfterPinata(u) == IF u.nftKey THEN "nft.storage" ELSE "localCid"

\* The back end the script turns to first.
FirstBackEnd(u) == IF HasPinata(u) THEN "Pinata" ELSE AfterPinata(u)

UplExit(u, code) == [u EXCEPT !.pc = "exited", !.exitCode = code]

\* The script turns to a back end.
UplTry(u, backEnd) == [u EXCEPT !.pc = backEnd, !.tried = Append(@, backEnd)]

\* writeResult(cid, uri, note), then process.exit(0) or the end of the script.
UplDone(u, backEnd, note) ==
    UplExit([u EXCEPT !.cid = backEnd, !.resultFile = note, !.writes = @ + 1], 0)

UploadInit ==
    /\ WatcherOff
    /\ reg = RegOff
    /\ upl = UplOff

\* `node upload-passport.js ...`: without --file, or with a file that is not
\* JSON, the script exits with code 1; else it turns to its first back end.
UplStart ==
    /\ upl.pc = "off"
    /\ \E a \in UplArgs :
         LET u == [UplOff EXCEPT !.fileArg = a.fileArg, !.validJson = a.validJson,
                                 !.pinataKey = a.pinataKey,
                                 !.pinataSecret = a.pinataSecret,
                                 !.nftKey = a.nftKey, !.ipfsApiUrl = a.ipfsApiUrl]
         IN  upl' = IF ~a.fileArg \/ ~a.validJson THEN UplExit(u, 1)
                    ELSE UplTry(u, FirstBackEnd(u))
    /\ UNCHANGED <<watcher, reg>>

\* The POST to api.pinata.cloud: a response with IpfsHash ends the run; a
\* response without one, or a rejection, is logged and the script goes on.
UplPinata ==
    /\ upl.pc = "Pinata"
    /\ \E res \in {"cid", "error", "threw"} :
         upl' = IF res = "cid" THEN UplDone(upl, "Pinata", "pinned")
                ELSE UplTry(upl, AfterPinata(upl))
    /\ UNCHANGED <<watcher, reg>>

\* The POST to api.nft.storage: a response with value.cid ends the run; one
\* without, or a rejection, leads to the local computation.
UplNftStorage ==
    /\ upl.pc = "nft.storage"
    /\ \E res \in {"cid", "none", "threw"} :
         upl' = IF res = "cid" THEN UplDone(upl, "nft.storage", "pinned")
                ELSE UplTry(upl, "localCid")
    /\ UNCHANGED <<watcher, reg>>

\* The fallback: ipfs-only-hash computes the CID, the script writes the
\* .pinnable.json copy and the result with the note "local-only".  Without
\* the package the script exits with code 1, as it does when Hash.of rejects.
UplLocalCid ==
    /\ upl.pc = "localCid"
    /\ \E res \in {"cid", "importFailed", "threw"} :
         upl' = IF res = "cid"
                THEN UplDone([upl EXCEPT !.pinnable = TRUE], "localCid", "local-only")
                ELSE UplExit(upl, 1)
    /\ UNCHANGED <<watcher, reg>>

UploadNext ==
    \/ UplStart
    \/ UplPinata
    \/ UplNftStorage
    \/ UplLocalCid

UploadSpec == UploadInit /\ [][UploadNext]_vars

\* ================================================================ claims
\* An invocation of poll() that is past its early return: it is scanning.
Scanning(rec) == rec.pc \in {"queryFilter", "getAgentById", "sendXmtp"}

\* The invocation that ended in the step just taken went through its scan
\* (it reached the assignment of state.lastBlock).
ScanEnded == last.outcome \in {"scanned", "saveThrew"}

\* The logs of the watched kinds in the range an invocation scans.
InRange(rec) ==
    { e \in LogsUpTo(rec.currentBlock) :
        rec.fromBlock <= e.blockNumber /\ e.blockNumber <= rec.currentBlock }

\* The range an invocation scans holds a log of every watched kind.
EveryKindInRange(rec) == \A k \in Kinds : \E e \in InRange(rec) : e.kind = k

\* The counterparty of an event: endorserAddr, deployerAddr or agentAddr.
Counterparty(e) ==
    IF e.kind = "EndorsementRequested" THEN e.args.endorserAddr
    ELSE IF e.kind = "ApplicationSubmitted" THEN e.args.deployerAddr
    ELSE e.args.agentAddr

\* The events in an invocation's range whose kind's query did not fail.
ReturnedEvents(rec) == {e \in InRange(rec) : e.kind \notin rec.failedKinds}

\* The dispatches an invocation made for an event.
DispatchesFor(rec, e) == {i \in 1..Len(rec.sent) : rec.sent[i].ev = e}

\* C1: after every polling cycle that read the head height, state.lastBlock
\* equals the head height that cycle read, whatever failed during the cycle.
C1_WatermarkIsHeadRead ==
    (last.outcome \in {"noop", "scanned", "saveThrew"} /\ Running)
        => state.lastBlock = last.cycle.currentBlock

\* C2: at most one polling cycle is in flight at any time.
C2_CyclesSerialized == Cardinality(InFlight) <= 1

\* C3: a cycle called after a scan of [fromBlock, H] completed never scans a
\* range that holds a block <= H.
C3_NoBlockScannedTwice ==
    \A c \in CycleIds : Scanning(cycles[c]) => cycles[c].fromBlock > cycles[c].floor

\* C4: while a watermark is present it is never set to a lower value (so that
\* the fromBlock of successive cycles never decreases).
C4_WatermarkNeverDecreases ==
    [][(state.lastBlock # null /\ state'.lastBlock # null)
          => state'.lastBlock >= state.lastBlock]_vars

\* C5: after a restart with a state file that holds a watermark, the first
\* cycle starts at the persisted lastBlock + 1 and, when it scans, ends with the
\* watermark at the head it read; no cycle of the run scans a block at or below
\* the persisted watermark.
C5_RestartResumesAfterWatermark ==
    bootBlock # null =>
        /\ \A c \in CycleIds :
             Scanning(cycles[c]) => cycles[c].fromBlock > bootBlock
        /\ (proc = "firstPoll" /\ Scanning(cycles[1]))
             => cycles[1].fromBlock = bootBlock + 1
        /\ (last.first /\ last.outcome \in {"noop", "scanned"})
             => /\ last.cycle.fromBlock = bootBlock + 1
                /\ last.outcome = "scanned"
                     => state.lastBlock = last.cycle.currentBlock

\* A restarted process, whose state file an earlier run wrote, scans from the
\* persisted watermark + 1 up to a head that moved while it was down.
C5_Witness ==
    /\ proc = "firstPoll"
    /\ bootBlock >= LOOKBACK - 1
    /\ Scanning(cycles[1])
    /\ cycles[1].fromBlock = bootBlock + 1
    /\ cycles[1].currentBlock > cycles[1].fromBlock

\* C6: a cycle whose fromBlock is greater than the head it read makes no log
\* query, no view call and no dispatch, and changes neither state.lastBlock
\* nor the state file.
C6_NothingNewIsNoOp ==
    (/\ last.outcome \in {"noop", "scanned", "saveThrew"}
     /\ last.cycle.fromBlock > last.cycle.currentBlock)
        => /\ last.cycle.queried = {}
           /\ last.cycle.viewFailed = {}
           /\ last.cycle.sent = <<>>
           /\ state.lastBlock = last.before.lastBlock
           /\ file = last.before.file

\* A cycle found state.lastBlock equal to the head it read, and returned.
C6_Witness ==
    /\ last.outcome = "noop"
    /\ last.cycle.currentBlock = last.before.lastBlock
    /\ last.cycle.fromBlock = last.cycle.currentBlock + 1
    /\ file.kind = "json"

\* C7: a cycle in which the log query of some kind failed still made the log
\* queries of the other kinds and a dispatch for each of their events.
C7_QueryFailureIsolated ==
    (ScanEnded /\ last.cycle.failedKinds # {})
        => /\ last.cycle.queried = Kinds
           /\ \A e \in ReturnedEvents(last.cycle) :
                DispatchesFor(last.cycle, e) # {}

\* The first query of a cycle failed, with logs of every kind in its range,
\* and the events of both other kinds were dispatched.
C7_Witness ==
    /\ ScanEnded
    /\ last.cycle.failedKinds = {"EndorsementRequested"}
    /\ EveryKindInRange(last.cycle)
    /\ \A k \in Kinds \ {"EndorsementRequested"} :
         \E i \in 1..Len(last.cycle.sent) : last.cycle.sent[i].ev.kind = k

C9_ViewFailureKeepsEvent ==
    ScanEnded =>
        /\ \A e \in last.cycle.viewFailed :
             \E i \in 1..Len(last.cycle.sent) :
                /\ last.cycle.sent[i].ev = e
                /\ last.cycle.sent[i].to = e.args.endorserAddr
                /\ last.cycle.sent[i].message =
                     msgEndorsementRequested(e.args.agentAddr, e.args.agentId,
                                             e.args.endorserAddr, "unknown")
        /\ last.cycle.viewFailed # {}
             => /\ \A e \in ReturnedEvents(last.cycle) :
                     DispatchesFor(last.cycle, e) # {}
                /\ Running => state.lastBlock = last.cycle.currentBlock

\* The view call of the first event of a cycle failed; the cycle dispatched it
\* and the events after it, and advanced the watermark.
C9_Witness ==
    /\ ScanEnded
    /\ Running
    /\ Len(last.cycle.sent) >= 3
    /\ last.cycle.viewFailed = {last.cycle.sent[1].ev}
    /\ state.lastBlock = last.cycle.currentBlock

\* The events the ledger holds in the blocks the watermark covers, from the
\* first block this run scanned.
Covered ==
    IF Running /\ state.lastBlock # null /\ firstScanned # null
    THEN { e \in LogsUpTo(chainHead) :
             firstScanned <= e.blockNumber /\ e.blockNumber <= state.lastBlock }
    ELSE {}

\* C10 as claimed: a dispatch attempt has been made for every event in the
\* blocks the watermark covers.
C10_EveryCoveredEventDispatched == Covered \subseteq attempted

\* C10 as amended: every event in the blocks the watermark covers has had a
\* dispatch attempt, or was in the range of a log query of its kind that
\* failed.
C10_CoveredDispatchedOrQueryFailed == Covered \subseteq (attempted \cup skipped)

\* The watermark covers an event that no dispatch was attempted for, its
\* kind's query having failed.
C10_Witness == \E e \in Covered : e \notin attempted /\ e \in skipped

\* C11 as claimed: a step in which an external call of a polling cycle fails
\* leaves the process running, in the first cycle as in a timer-driven one.
C11_NoCycleErrorTerminates ==
    [][(faults' > faults /\ proc \in {"firstPoll", "watching"})
          => proc' \in {proc, "watching"}]_vars

\* C11 as amended: a failed log query, view call or dispatch never ends the
\* process, nor does a failed head read or state write of a timer-driven
\* cycle, after which the timer still starts cycles; a failed head read or
\* state write of the first cycle, which main() awaits outside any try, ends
\* the process with exit code 1.
C11_ErrorsContainedOnceWatching ==
    [][(faults' > faults /\ proc \in {"firstPoll", "watching"})
          => IF proc = "firstPoll" /\ last'.outcome \in {"threw", "saveThrew"}
             THEN proc' = "exited" /\ exitCode' = 1
             ELSE /\ proc' \in {proc, "watching"}
                  /\ exitCode' = null
                  /\ last'.outcome \in {"threw", "saveThrew"}
                       => /\ proc' = "watching"
                          /\ \E c \in CycleIds : cycles'[c].pc = "idle"]_vars

\* The state write of a timer-driven cycle failed after its scan had
\* dispatched events, and the process is still watching.
C11_Witness ==
    /\ last.outcome = "saveThrew"
    /\ ~last.first
    /\ last.cycle.sent # <<>>
    /\ proc = "watching"
    /\ exitCode = null

C13_FromBlockFollowsWatermarkAtStart ==
    [][\A c \in CycleIds :
         (/\ cycles[c].pc = "gotBlockNumber"
          /\ cycles[c].atCall # null
          /\ cycles'[c] # cycles[c]
          /\ Scanning(cycles'[c]) \/ last'.outcome = "noop")
         => (IF Scanning(cycles'[c]) THEN cycles'[c].fromBlock
             ELSE last'.cycle.fromBlock) = cycles[c].atCall + 1]_vars

\* C14 as claimed: a cycle dispatches each AgentRegistered event whose
\* creator is not the agent itself to that creator as well.
C14_CreatorNotified ==
    ScanEnded =>
        \A e \in ReturnedEvents(last.cycle) :
            (e.kind = "AgentRegistered" /\ e.args.creator # e.args.agentAddr)
            => \E i \in 1..Len(last.cycle.sent) :
                  /\ last.cycle.sent[i].ev = e
                  /\ last.cycle.sent[i].to = e.args.creator

\* C15 as claimed: the first cycle of a run that found no watermark scans
\* from FROM_BLOCK when the environment sets it, and from max(0, H - 1000)
\* otherwise.
C15_FromBlockEnvHonoured ==
    (proc = "firstPoll" /\ bootBlock = null /\ Scanning(cycles[1]))
        => cycles[1].fromBlock =
             (IF env.FROM_BLOCK # null THEN env.FROM_BLOCK
              ELSE Max(0, cycles[1].currentBlock - LOOKBACK))

\* C18: a watcher launched without NOTIFIER_PRIVATE_KEY has exited with code 1
\* and never initialised the messaging client, read the state file or called
\* poll().
C18_MissingKeyExitsFirst ==
    (proc # "off" /\ ~env.NOTIFIER_PRIVATE_KEY)
        => /\ proc = "exited"
           /\ exitCode = 1
           /\ InFlight = {}
           /\ state.lastBlock = null
           /\ bootBlock = null
           /\ firstScanned = null
           /\ last.outcome = "none"

\* A launch without the key has exited with code 1 although a state file with
\* a watermark, left by an earlier run, was there to read.
C18_Witness ==
    /\ proc = "exited"
    /\ exitCode = 1
    /\ ~env.NOTIFIER_PRIVATE_KEY
    /\ file.kind = "json"
    /\ file.lastBlock >= LOOKBACK
    /\ bootBlock = null

\* The calls of sendXmtp made by the invocations of poll() in flight.
DispatchesInFlight ==
    UNION { { <<c, i>> : i \in 1..Len(cycles[c].sent) } : c \in CycleIds }

C16_RegisteredRunSubmitsNothing ==
    (reg.registered = "true" \/ reg.hasApp = "true")
        => /\ reg.tx = "none"
           /\ reg.pc = "exited" => reg.exitCode = 0

\* C17: a run of register.js that read a zero balance has exited with a
\* non-zero code, having made no call but getBalance, submitted no
\* transaction and written no result file.
C17_ZeroBalanceExitsFirst ==
    reg.balance = 0
        => /\ reg.pc = "exited"
           /\ reg.exitCode \notin {null, 0}
           /\ reg.calls = <<"getBalance">>
           /\ reg.registered = "none"
           /\ reg.hasApp = "none"
           /\ reg.tx = "none"
           /\ reg.resultFile = "none"

\* A run with valid inputs, in vetting mode, read a zero balance and exited.
C17_Witness ==
    /\ reg.balance = 0
    /\ reg.key /\ reg.uri /\ reg.deployer /\ ~reg.autonomous
    /\ reg.pc = "exited"
    /\ reg.exitCode = 1

\* The priority of the storage back ends, as documented.
BackEndPriority == <<"localNode", "Pinata", "nft.storage", "localCid">>

\* The place of a back end in the documented priority.
Priority(backEnd) == CHOOSE i \in 1..4 : BackEndPriority[i] = backEnd

\* C19 as claimed: a run of upload-passport.js with a passport to upload
\* turns to the local IPFS node first, to the other back ends in the order of
\* priority, and stops at the first one that yields a CID.
C19_BackEndsInPriorityOrder ==
    (upl.pc # "off" /\ upl.fileArg /\ upl.validJson)
        => /\ upl.tried # <<>>
           /\ upl.tried[1] = "localNode"
           /\ \A i, j \in 1..Len(upl.tried) :
                i < j => Priority(upl.tried[i]) < Priority(upl.tried[j])
           /\ upl.cid # "none"
                => upl.pc = "exited" /\ upl.cid = upl.tried[Len(upl.tried)]

\* The records of the invocations of poll() in flight and of the one that
\* has just ended.
CycleRecords == {cycles[c] : c \in CycleIds} \cup {last.cycle}

\* The place of an event kind in the order poll() handles the kinds.
KindIndex(kind) == CHOOSE k \in 1..3 : KindOrder[k] = kind

\* C21 as claimed: within a cycle no event of an earlier block is dispatched
\* after an event of a later block.
C21_DispatchedInBlockOrder ==
    \A rec \in CycleRecords :
        \A i, j \in 1..Len(rec.sent) :
            i < j => rec.sent[i].ev.blockNumber <= rec.sent[j].ev.blockNumber

\* C21 as amended: within a cycle the events are dispatched kind by kind, in
\* the order EndorsementRequested, ApplicationSubmitted, AgentRegistered, and
\* the events of one kind in the block order of the query result.
C21_DispatchedKindByKindInBlockOrder ==
    \A rec \in CycleRecords :
        \A i, j \in 1..Len(rec.sent) :
            i < j =>
                /\ KindIndex(rec.sent[i].ev.kind) <= KindIndex(rec.sent[j].ev.kind)
                /\ rec.sent[i].ev.kind = rec.sent[j].ev.kind
                     => rec.sent[i].ev.blockNumber < rec.sent[j].ev.blockNumber

\* A cycle dispatched two events of one kind from different blocks, and then
\* an event of another kind from a block before the second of them.
C21_Witness ==
    /\ ScanEnded
    /\ \E i, j, k \in 1..Len(last.cycle.sent) :
         /\ i < j /\ j < k
         /\ last.cycle.sent[i].ev.kind = last.cycle.sent[j].ev.kind
         /\ last.cycle.sent[i].ev.blockNumber < last.cycle.sent[j].ev.blockNumber
         /\ last.cycle.sent[k].ev.kind # last.cycle.sent[j].ev.kind
         /\ last.cycle.sent[k].ev.blockNumber < last.cycle.sent[j].ev.blockNumber

\* main() has loaded the state: the state object exists.
Loaded == {"firstPoll", "watching"}

\* C22 as claimed: whenever the watcher is watching with no cycle in flight,
\* the lastBlock in the state file is the in-memory lastBlock.
C22_FileMatchesMemoryWhenQuiet ==
    (proc = "watching" /\ InFlight = {}) => file.lastBlock = state.lastBlock

\* C22 as amended: the state file is read only when main() starts; it is
\* written only by the last step of a cycle that scanned, with the in-memory
\* watermark that step has just set; the in-memory watermark changes in no
\* other step; and the two differ only from a step in which the state write of
\* a cycle failed, until the next write.
C22_FileFollowsMemoryUnlessWriteFailed ==
    [][/\ bootBlock' # bootBlock
          => (proc = "initXmtp" /\ proc' = "firstPoll") \/ ~Running'
       /\ file' # file
          => /\ last'.outcome = "scanned"
             /\ file'.kind = "json"
             /\ file'.lastBlock = state'.lastBlock
             /\ file'.lastBlock = last'.cycle.currentBlock
       /\ (state' # state /\ proc \in Loaded /\ proc' \in Loaded)
          => /\ last'.outcome \in {"scanned", "saveThrew"}
             /\ state'.lastBlock = last'.cycle.currentBlock
       /\ (proc' \in Loaded /\ file'.lastBlock # state'.lastBlock)
          => \/ last'.outcome = "saveThrew"
             \/ /\ proc \in Loaded
                /\ file.lastBlock # state.lastBlock
                /\ file' = file
                /\ state' = state]_vars

\* A timer-driven cycle has just written the file, with the watermark it set,
\* after an earlier failed write had left the file behind the memory; no cycle
\* is in flight.
C22_Witness ==
    /\ last.outcome = "scanned"
    /\ ~last.first
    /\ proc = "watching"
    /\ InFlight = {}
    /\ file.kind = "json"
    /\ file.lastBlock = state.lastBlock
    /\ last.before.file.lastBlock # last.before.lastBlock

\* C23: a timer-driven cycle whose head read failed made no log query, no view
\* call and no dispatch and computed no range; it left the in-memory watermark
\* and the state file as they were, so that a cycle computes the same
\* fromBlock after it as before it; and the timer can start the next cycle.
C23_FailedHeadReadChangesNothing ==
    (last.outcome = "threw" /\ ~last.first)
        => /\ last.cycle.queried = {}
           /\ last.cycle.viewFailed = {}
           /\ last.cycle.sent = <<>>
           /\ last.cycle.fromBlock = null
           /\ state.lastBlock = last.before.lastBlock
           /\ file = last.before.file
           /\ FromBlock(state.lastBlock, chainHead)
                = FromBlock(last.before.lastBlock, chainHead)
           /\ proc = "watching"
           /\ exitCode = null
           /\ \E c \in CycleIds : cycles[c].pc = "idle"

\* The head read of a timer-driven cycle failed while blocks above the
\* watermark were waiting to be scanned, and no other cycle is in flight.
C23_Witness ==
    /\ last.outcome = "threw"
    /\ ~last.first
    /\ proc = "watching"
    /\ InFlight = {}
    /\ state.lastBlock # null
    /\ state.lastBlock < chainHead
    /\ file.lastBlock = state.lastBlock

\* The run of upload-passport.js got past the argument and JSON validation.
UplValid == upl.pc # "off" /\ upl.fileArg /\ upl.validJson

\* The back ends the environment configures, in the order of the script; the
\* local computation needs no configuration.
Configured ==
    (IF HasPinata(upl) THEN <<"Pinata">> ELSE <<>>)
    \o (IF upl.nftKey THEN <<"nft.storage">> ELSE <<>>)
    \o <<"localCid">>

\* A later back end is contacted only after every configured back end before
\* it was contacted and returned no CID, and the result file is written at
\* most once, with the CID of the back end that returned one and the note
\* "local-only" for the local computation alone.
UplChain ==
    /\ Len(upl.tried) \in 1..Len(Configured)
    /\ \A i \in 1..Len(upl.tried) : upl.tried[i] = Configured[i]
    /\ upl.pc # "exited" => upl.pc = upl.tried[Len(upl.tried)]
    /\ upl.cid \in {"none", upl.tried[Len(upl.tried)]}
    /\ upl.writes = (IF upl.cid = "none" THEN 0 ELSE 1)
    /\ upl.resultFile = (IF upl.cid = "none" THEN "none"
                         ELSE IF upl.cid = "localCid" THEN "local-only"
                         ELSE "pinned")
    /\ upl.pinnable = (upl.cid = "localCid")

LiveFaults == 1

LiveStart == proc = "off" /\ Start /\ env'.FROM_BLOCK = null

LiveNext ==
    \/ NewBlock
    \/ LiveStart
    \/ InitXmtpOk
    \/ InitXmtpFail /\ faults' <= LiveFaults
    \/ Tick
    \/ \E c \in CycleIds : HeadResponse(c) /\ faults' <= LiveFaults
    \/ \E c \in CycleIds : HeadFail(c) /\ faults' <= LiveFaults
    \/ \E c \in CycleIds : Resume(c) /\ faults' <= LiveFaults
    \/ \E c \in CycleIds : QueryOk(c) /\ faults' <= LiveFaults
    \/ \E c \in CycleIds : QueryFail(c) /\ faults' <= LiveFaults
    \/ \E c \in CycleIds : ViewOk(c) /\ faults' <= LiveFaults
    \/ \E c \in CycleIds : ViewFail(c) /\ faults' <= LiveFaults
    \/ \E c \in CycleIds : SendOk(c) /\ faults' <= LiveFaults
    \/ \E c \in CycleIds : SendFail(c) /\ faults' <= LiveFaults

\* The scheduling the event loop and the network give the watcher: the timer
\* of setInterval keeps firing, every pending call is answered at some point,
\* and a resumed invocation of poll() runs.  Calls may fail, LiveFaults times.
Fairness ==
    /\ WF_vars(Tick)
    /\ \A c \in CycleIds :
         /\ WF_vars(HeadResponse(c))
         /\ WF_vars(Resume(c))
         /\ WF_vars(QueryOk(c))
         /\ WF_vars(ViewOk(c))
         /\ WF_vars(SendOk(c))

LiveSpec == Init /\ [][LiveNext]_vars /\ Fairness

\* C24: once the watcher is in its loop, every block at or below the chain
\* head, from the first block it may scan, is eventually covered by the
\* watermark (eventually lastBlock >= b).
C24_EveryBlockEventuallyCovered ==
    \A b \in (LOOKBACK - 1)..MaxHead :
        (proc = "watching" /\ b <= chainHead) ~> (state.lastBlock >= b)

\* A timer cycle has covered a block the ledger gained after the start.
C24_Witness ==
    /\ proc = "watching"
    /\ chainHead > LOOKBACK - 1
    /\ last.outcome = "scanned"
    /\ ~last.first
    /\ state.lastBlock = chainHead

====
